---- MODULE Spec2Model ----
(***************************************************************************)
(* A model of the eventaic backend: the /ads routes (app/api/v1/ads.py),   *)
(* AdService (app/services/ad_service.py), the ORM rows they persist       *)
(* (app/models), the reply parsers of DifyService                          *)
(* (app/services/dify_service.py), and the account and admin routes.       *)
(*                                                                         *)
(* Spec      - the routes over the relational store.  generate_ad is cut   *)
(*             at its awaits, so requests of several clients interleave    *)
(*             between its quota check and its commit.                     *)
(* SpecJson  - the JSON extraction of the content and evaluation parsers,   *)
(*             applied to every short answer text.                         *)
(* SpecEval  - the score defaults and clamps of the evaluation parser and  *)
(*             the rows evaluate_ad stores from its payload.               *)
(* SpecGen   - the backfill of the content parser and the Ad built from   *)
(*             its payload.                                                *)
(* SpecImage - the strategies of the image-reply parser.                   *)
(* SpecWorkers - generate_ad with several server processes on one          *)
(*             database: its two limit checks are separate steps.          *)
(* SpecRoutes - the routes that take an ad id, over a store with one Ad.    *)
(* SpecQuota - generate_ad while an admin changes the tenant's limit and   *)
(*             status (app/api/v1/admin.py).                               *)
(* SpecLineage - regeneration and deletion of ads by two members of one    *)
(*             tenant while an admin deletes users.                        *)
(* SpecTenancy - the members' /ads requests while an admin deactivates and *)
(*             activates their company.                                    *)
(* SpecAuth  - the accounts under the auth routes (app/api/v1/auth.py),    *)
(*             the self-service delete and the admin's user routes.        *)
(***************************************************************************)
EXTENDS Integers, Sequences, FiniteSets, Bags, TLC

\* ------------------------------------------------------------- bounds
NumReq == 2          \* generate_ad requests in flight at once
MaxAds == 3          \* Ad rows ever inserted
MaxEvals == 1        \* AdEvaluation rows held at once
MaxRegen == 2        \* cap on regeneration_count
MonthlyLimit == 1    \* monthly_ad_limit of every company (the code's default is 100)
NumImages == 1       \* distinct public image URLs
MaxAnswer == 4       \* length of a gateway answer text, in characters
MaxEvalRows == 2     \* AdEvaluation rows held at once in SpecEval
MaxLimit == 2        \* largest monthly_ad_limit an admin sets (the route allows 10000)
MaxLinks == 2        \* email verification links issued to one user

\* ------------------------------------------------------------- constants
NULL == 0            \* SQL NULL of parent_ad_id / image_url
NoScore == -1        \* SQL NULL of evaluation_score
NeutralScore == 5
MinScore == 0
MaxScore == 10

Req == 1 .. NumReq
AdIds == 1 .. MaxAds
Companies == {"c1", "c2"}
Users == {"u1", "u2", "root"}
Authors == {"u1"}    \* the users who generate; u2 is a member of another tenant

VARIABLES
    companies,   \* companies table: id -> row
    ads,         \* ads table (committed rows): id -> row
    evals,       \* ad_evaluations table: a bag of rows
    nextId,      \* the next Ad insert (its id and created_at)
    pc,          \* where each generate_ad request in flight stands
    loc,         \* its session and locals
    last,        \* the HTTP response sent last, with the gateway calls made for it
    reply,       \* parser specifications: the gateway reply being parsed
    payload,     \* parser specifications: what the parser returned for it
    users,       \* users table: id -> row
    settings     \* app.core.config.settings, fixed when the server starts

vars == <<companies, ads, evals, nextId, pc, loc, last, reply, payload, users, settings>>
dbVars == <<companies, ads, evals, nextId>>
parseVars == <<reply, payload>>
reqVars == <<pc, loc>>
authVars == <<users, settings>>

\* users.role
UserRole(u) == users[u].role

\* users.company_id ("none" is NULL)
UserCompany(u) == users[u].company_id

\* ------------------------------------------------------------- rows
NoLoc == [user |-> "u1", pinned |-> FALSE, seen_month |-> 0, seen_total |-> 0,
          ad |-> 0, calls |-> <<>>]

Response(status, body, calls) == [status |-> status, body |-> body, calls |-> calls]

NewCompany == [monthly_ad_limit |-> MonthlyLimit,
               ads_generated_this_month |-> 0,
               total_ads_generated |-> 0,
               is_active |-> TRUE]

\* User(...) with the column defaults; email_verification_token counts the
\* verification links issued so far (0 is NULL), last_login is 0 until a login
UserRow(role, company) ==
    [role |-> role, company_id |-> company,
     is_active |-> TRUE, is_deleted |-> FALSE, is_email_verified |-> TRUE,
     email_verification_token |-> 0, last_login |-> 0]

\* The accounts on file from the start: a member of each tenant, and root, a
\* super-admin, who belongs to no company
SeedUsers ==
    [u \in Users |->
        IF u = "root" THEN UserRow("super_admin", "none")
        ELSE IF u = "u1" THEN UserRow("company", "c1")
        ELSE UserRow("company", "c2")]

\* settings as config.py defaults them
DefaultSettings == [EMAIL_VERIFICATION_REQUIRED |-> FALSE]

\* get_current_user: the row of the token's subject, 401 when it is gone
GetCurrentUser(u) == IF u \in DOMAIN users THEN 200 ELSE 401

\* get_current_active_user
GetCurrentActiveUser(u) ==
    IF GetCurrentUser(u) # 200 THEN GetCurrentUser(u)
    ELSE IF ~users[u].is_active THEN 403
    ELSE IF users[u].is_deleted THEN 403
    ELSE IF settings.EMAIL_VERIFICATION_REQUIRED /\ ~users[u].is_email_verified THEN 403
    ELSE 200

\* get_super_admin
GetSuperAdmin(u) ==
    IF GetCurrentActiveUser(u) # 200 THEN GetCurrentActiveUser(u)
    ELSE IF users[u].role # "super_admin" THEN 403
    ELSE 200

\* Variants of check_generation_limit: the bound included, and no check at all
CheckGenerationLimitInclusive(c) ==
    /\ c \in Companies
    /\ companies[c].ads_generated_this_month <= companies[c].monthly_ad_limit

CheckGenerationLimitSkipped(c) == c \in Companies

\* AdService.check_generation_limit
CheckGenerationLimit(c) ==
    /\ c \in Companies
    /\ companies[c].ads_generated_this_month < companies[c].monthly_ad_limit

\* Ad(...) of generate_ad: the row as flushed, before the image step
GeneratedAd(id, u, prompt) ==
    [company_id |-> UserCompany(u), created_by_id |-> u,
     parent_ad_id |-> NULL, regeneration_count |-> 0,
     status |-> "GENERATED", ad_type |-> "PRODUCT_GEN",
     headline |-> id, image_prompt |-> prompt, image_url |-> NULL,
     evaluation_score |-> NoScore, created_at |-> id]

\* Variants of the regenerated row: the parent's count copied, the count reset
RegeneratedAdSameCount(id, u, origId, orig, prompt) ==
    [company_id |-> UserCompany(u), created_by_id |-> u,
     parent_ad_id |-> origId, regeneration_count |-> orig.regeneration_count,
     status |-> "REGENERATED", ad_type |-> "REGEN",
     headline |-> id, image_prompt |-> prompt, image_url |-> NULL,
     evaluation_score |-> NoScore, created_at |-> id]

RegeneratedAdCountReset(id, u, origId, orig, prompt) ==
    [company_id |-> UserCompany(u), created_by_id |-> u,
     parent_ad_id |-> origId, regeneration_count |-> 0,
     status |-> "REGENERATED", ad_type |-> "REGEN",
     headline |-> id, image_prompt |-> prompt, image_url |-> NULL,
     evaluation_score |-> NoScore, created_at |-> id]

\* Ad(...) of regenerate_ad: the new version of the row `orig`
RegeneratedAd(id, u, origId, orig, prompt) ==
    [company_id |-> UserCompany(u), created_by_id |-> u,
     parent_ad_id |-> origId, regeneration_count |-> orig.regeneration_count + 1,
     status |-> "REGENERATED", ad_type |-> "REGEN",
     headline |-> id, image_prompt |-> prompt, image_url |-> NULL,
     evaluation_score |-> NoScore, created_at |-> id]

\* Outcomes of a content call: it fails (gateway error or unparsable reply),
\* or returns copy without or with an image_prompt.
ContentOutcomes == {"fail", "copy", "copy_prompt"}

\* Outcomes of the image step: the gateway raises, the parser finds no URL,
\* the download fails, or a public URL comes back.
ImageOutcomes == {-3, -2, -1} \cup (1 .. NumImages)
ImageUrlOf(o) == IF o > 0 THEN o ELSE NULL

\* Ad inserts that requests in flight will still make
Reserved == Cardinality({r \in Req : pc[r] = "gen_content"})

\* A new request takes the lowest free slot
FreeSlot(r) == pc[r] = "idle" /\ \A q \in Req : q < r => pc[q] # "idle"

Init ==
    /\ companies = [c \in Companies |-> NewCompany]
    /\ ads = <<>>
    /\ evals = EmptyBag
    /\ nextId = 1
    /\ pc = [r \in Req |-> "idle"]
    /\ loc = [r \in Req |-> NoLoc]
    /\ last = Response(0, <<>>, <<>>)
    /\ reply = <<>>
    /\ payload = <<>>
    /\ users = SeedUsers
    /\ settings = DefaultSettings

\* ------------------------------------------------------------- generate_ad
Respond(status, body, calls) == last' = Response(status, body, calls)

Finish(r, status) ==
    /\ pc' = [pc EXCEPT ![r] = "idle"]
    /\ loc' = [loc EXCEPT ![r] = NoLoc]
    /\ Respond(status, <<>>, loc[r].calls)

\* POST /ads/generate up to the first await: the route's pre-check (429), the
\* service's own check, and `request.company_name or user.company.name`,
\* which loads the Company into the session when the request names none.
GenerateAdStart(r, u, named) ==
    LET c == UserCompany(u) IN
    /\ FreeSlot(r)
    /\ IF GetCurrentActiveUser(u) # 200
       THEN /\ Respond(GetCurrentActiveUser(u), <<>>, <<>>)
            /\ UNCHANGED reqVars
       ELSE IF ~CheckGenerationLimit(c)
       THEN /\ Respond(429, <<>>, <<>>)
            /\ UNCHANGED reqVars
       ELSE /\ nextId + Reserved <= MaxAds
            /\ pc' = [pc EXCEPT ![r] = "gen_content"]
            /\ loc' = [loc EXCEPT ![r] =
                   [NoLoc EXCEPT !.user = u, !.pinned = ~named,
                       !.seen_month = companies[c].ads_generated_this_month,
                       !.seen_total = companies[c].total_ads_generated,
                       !.calls = <<"content">>]]
            /\ UNCHANGED last
    /\ UNCHANGED <<dbVars, parseVars, authVars>>

\* Step 4 of generate_ad: the Company the session hands back is the instance
\* it already holds (its attributes as first loaded) when `user.company`
\* pinned one, and a freshly read row otherwise; `+= 1` writes that value + 1.
CountersAfter(r, c) ==
    IF loc[r].pinned
    THEN [companies[c] EXCEPT
             !.ads_generated_this_month = loc[r].seen_month + 1,
             !.total_ads_generated = loc[r].seen_total + 1]
    ELSE [companies[c] EXCEPT
             !.ads_generated_this_month = @ + 1,
             !.total_ads_generated = @ + 1]

\* Steps 4 and 5 of generate_ad: counters, commit, 201
GenerateCommit(r, id, row) ==
    LET c == row.company_id IN
    /\ companies' = [companies EXCEPT ![c] = CountersAfter(r, c)]
    /\ ads' = ads @@ (id :> row)
    /\ Finish(r, 201)
    /\ UNCHANGED <<evals, parseVars, authVars>>

\* The content call returns: DifyAPIException (the route answers 500), or the
\* Ad is added and flushed and the image step starts.
GenerateAdContent(r, co) ==
    /\ pc[r] = "gen_content"
    /\ IF co = "fail"
       THEN /\ Finish(r, 500)
            /\ UNCHANGED <<dbVars, parseVars, authVars>>
       ELSE /\ nextId' = nextId + 1
            /\ IF co = "copy_prompt"
               THEN /\ pc' = [pc EXCEPT ![r] = "gen_image"]
                    /\ loc' = [loc EXCEPT ![r].ad = nextId,
                                          ![r].calls = Append(@, "image")]
                    /\ UNCHANGED <<companies, ads, evals, last, parseVars, authVars>>
               ELSE GenerateCommit(r, nextId, GeneratedAd(nextId, loc[r].user, FALSE))

\* Variant of the image step that gives the request up when no image came
GenerateAdImageStrict(r, o) ==
    /\ pc[r] = "gen_image"
    /\ IF o > 0
       THEN GenerateCommit(r, loc[r].ad,
                [GeneratedAd(loc[r].ad, loc[r].user, TRUE) EXCEPT !.image_url = ImageUrlOf(o)])
       ELSE /\ Finish(r, 500)
            /\ UNCHANGED <<companies, ads, evals, parseVars, authVars>>
    /\ UNCHANGED nextId

\* The image call (and the download) returns; whatever it gave, the Ad commits.
GenerateAdImage(r, o) ==
    /\ pc[r] = "gen_image"
    /\ GenerateCommit(r, loc[r].ad,
           [GeneratedAd(loc[r].ad, loc[r].user, TRUE) EXCEPT !.image_url = ImageUrlOf(o)])
    /\ UNCHANGED nextId

\* ------------------------------------------------------------- routes on one Ad
\* Depends(get_current_active_user), get_ad, then the ownership check every
\* /ads route on an Ad id makes
\* Variant of the guard that lets a super-admin through
RouteGuardAdminBypass(u, a) ==
    IF GetCurrentActiveUser(u) # 200 THEN GetCurrentActiveUser(u)
    ELSE IF a \notin DOMAIN ads THEN 404
    ELSE IF UserRole(u) = "super_admin" THEN 200
    ELSE IF ads[a].company_id # UserCompany(u) THEN 403
    ELSE 200

RouteGuard(u, a) ==
    IF GetCurrentActiveUser(u) # 200 THEN GetCurrentActiveUser(u)
    ELSE IF a \notin DOMAIN ads THEN 404
    ELSE IF ads[a].company_id # UserCompany(u) THEN 403
    ELSE 200

Reject(status) ==
    /\ Respond(status, <<>>, <<>>)
    /\ UNCHANGED <<dbVars, reqVars, parseVars, authVars>>

\* Variant of the image-only update that puts the row back to GENERATED
ImageRegeneratedReset(row, url) ==
    [row EXCEPT !.image_url = url, !.regeneration_count = @ + 1,
                !.status = "GENERATED"]

\* Variant of the image-only update that also marks the row REGENERATED
ImageRegeneratedMarked(row, url) ==
    [row EXCEPT !.image_url = url, !.regeneration_count = @ + 1,
                !.status = "REGENERATED"]

\* regenerate_ad, image-only branch: the update of the existing row
ImageRegenerated(row, url) ==
    [row EXCEPT !.image_url = url, !.regeneration_count = @ + 1]

\* Variant of the image-only branch that counts the attempt even when the
\* image step failed
RegenerateImageOnlyCounted(a) ==
    /\ ads[a].regeneration_count < MaxRegen
    /\ IF ~ads[a].image_prompt
       THEN /\ Respond(500, <<>>, <<>>)
            /\ UNCHANGED ads
       ELSE \E o \in ImageOutcomes :
            IF o > 0
            THEN /\ ads' = [ads EXCEPT ![a] = ImageRegenerated(@, o)]
                 /\ Respond(200, <<>>, <<"image">>)
            ELSE /\ ads' = [ads EXCEPT ![a].regeneration_count = @ + 1]
                 /\ Respond(500, <<>>, <<"image">>)
    /\ UNCHANGED <<companies, evals, nextId, reqVars, parseVars, authVars>>

\* AdService.regenerate_ad(regenerate_image=True), as both the /regenerate and
\* the /generate-image routes call it; every failure is answered 500.
RegenerateImageOnly(a) ==
    /\ ads[a].regeneration_count < MaxRegen
    /\ IF ~ads[a].image_prompt
       THEN /\ Respond(500, <<>>, <<>>)
            /\ UNCHANGED ads
       ELSE \E o \in ImageOutcomes :
            IF o > 0
            THEN /\ ads' = [ads EXCEPT ![a] = ImageRegenerated(@, o)]
                 /\ Respond(200, <<>>, <<"image">>)
            ELSE /\ UNCHANGED ads
                 /\ Respond(500, <<>>, <<"image">>)
    /\ UNCHANGED <<companies, evals, nextId, reqVars, parseVars, authVars>>

\* Variant of the full-content branch that asks for the image although the
\* content call failed
RegenerateFullImageAnyway(u, a) ==
    \E co \in ContentOutcomes :
    IF co = "fail"
    THEN /\ Respond(500, <<>>, <<"content", "image">>)
         /\ UNCHANGED <<dbVars, reqVars, parseVars, authVars>>
    ELSE /\ nextId + Reserved <= MaxAds
         /\ ads[a].regeneration_count < MaxRegen
         /\ ads' = ads @@ (nextId :> RegeneratedAd(nextId, u, a, ads[a], FALSE))
         /\ Respond(200, <<>>, <<"content">>)
         /\ nextId' = nextId + 1
         /\ UNCHANGED <<companies, evals, reqVars, parseVars, authVars>>

\* AdService.regenerate_ad, full-content branch: a failed content call is
\* answered 500; otherwise the new version is inserted and, when it has an
\* image prompt, the image step runs before the commit.
RegenerateFull(u, a) ==
    \E co \in ContentOutcomes :
    IF co = "fail"
    THEN /\ Respond(500, <<>>, <<"content">>)
         /\ UNCHANGED <<dbVars, reqVars, parseVars, authVars>>
    ELSE /\ nextId + Reserved <= MaxAds
         /\ ads[a].regeneration_count < MaxRegen
         /\ IF co = "copy_prompt"
            THEN \E o \in ImageOutcomes :
                 /\ ads' = ads @@ (nextId :>
                        [RegeneratedAd(nextId, u, a, ads[a], TRUE) EXCEPT
                            !.image_url = ImageUrlOf(o)])
                 /\ Respond(200, <<>>, <<"content", "image">>)
            ELSE /\ ads' = ads @@ (nextId :> RegeneratedAd(nextId, u, a, ads[a], FALSE))
                 /\ Respond(200, <<>>, <<"content">>)
         /\ nextId' = nextId + 1
         /\ UNCHANGED <<companies, evals, reqVars, parseVars, authVars>>

\* POST /ads/regenerate
RegenerateAd(u, a) ==
    IF RouteGuard(u, a) # 200 THEN Reject(RouteGuard(u, a))
    ELSE \E image_only \in BOOLEAN :
         IF image_only THEN RegenerateImageOnly(a) ELSE RegenerateFull(u, a)

\* ImageGenerationResponse of the Ad row as it stands: its image_url and its
\* image_prompt (`ad.image_prompt or ""`: 1 stands for the text, 0 for "")
ImageGenerationResponse(a) ==
    <<ads[a].image_url, IF ads[a].image_prompt THEN 1 ELSE 0>>

\* Variant of the route that regenerates whatever force_regenerate says
GenerateImageAlways(u, a, force) ==
    IF RouteGuard(u, a) # 200 THEN Reject(RouteGuard(u, a))
    ELSE RegenerateImageOnly(a)

\* POST /ads/generate-image with the request's force_regenerate
GenerateImageRequest(u, a, force) ==
    IF RouteGuard(u, a) # 200 THEN Reject(RouteGuard(u, a))
    ELSE IF ads[a].image_url # NULL /\ ~force
         THEN /\ Respond(200, ImageGenerationResponse(a), <<>>)
              /\ UNCHANGED <<dbVars, reqVars, parseVars, authVars>>
         ELSE RegenerateImageOnly(a)

\* POST /ads/generate-image
GenerateImage(u, a) == \E force \in BOOLEAN : GenerateImageRequest(u, a, force)

\* ------------------------------------------------------------- evaluation
ScoreFields == {"relevance_score", "clarity_score", "persuasiveness_score",
                "brand_safety_score", "overall_score"}

Min(x, y) == IF x < y THEN x ELSE y
Max(x, y) == IF x > y THEN x ELSE y

\* A value of the decoded JSON object: a number, or something float() rejects
Number(n) == [num |-> TRUE, v |-> n]
NotANumber == [num |-> FALSE, v |-> 0]

\* Variant of the clamp without its lower bound
ClampScoreUpperOnly(v) == Min(MaxScore, v)

\* max(0.0, min(10.0, float(v)))
ClampScore(v) == Max(MinScore, Min(MaxScore, v))

\* _parse_evaluation_response on the decoded object `obj` (a function from
\* the score fields the model sent to their values): the five scores, or a
\* failure when float() raises
EvaluationScores(obj) ==
    IF \E f \in DOMAIN obj : ~obj[f].num
    THEN [ok |-> FALSE, scores |-> <<>>]
    ELSE [ok |-> TRUE,
          scores |-> [f \in ScoreFields |->
              IF f \notin DOMAIN obj THEN NeutralScore ELSE ClampScore(obj[f].v)]]

\* AdEvaluation(...) of evaluate_ad
EvaluationRow(a, scores) == [ad_id |-> a, scores |-> scores]

\* evaluate_ad's update of the Ad
Evaluated(row, evaluation) ==
    [row EXCEPT !.evaluation_score = evaluation.scores["overall_score"],
                !.status = "EVALUATED"]

\* Decoded evaluation objects the gateway sends in Spec
EvalObjects == {<<>>,
                ("overall_score" :> Number(15)) @@ ("clarity_score" :> Number(-3)),
                ("overall_score" :> NotANumber)}

\* Variant of the store that keeps one evaluation row per Ad
EvaluationStoredReplacing(a, scores) ==
    LET row == EvaluationRow(a, scores)
        others == [e \in {x \in DOMAIN evals : x.ad_id # a} |-> evals[e]]
    IN
    /\ evals' = others (+) SetToBag({row})
    /\ ads' = [ads EXCEPT ![a] = Evaluated(@, row)]

\* AdService.evaluate_ad, from a payload the parser returned
EvaluationStored(a, scores) ==
    LET row == EvaluationRow(a, scores) IN
    /\ evals' = evals (+) SetToBag({row})
    /\ ads' = [ads EXCEPT ![a] = Evaluated(@, row)]

\* POST /ads/evaluate: a failed call and an unparsable reply are answered 500
EvaluateAd(u, a) ==
    IF RouteGuard(u, a) # 200 THEN Reject(RouteGuard(u, a))
    ELSE \E ok \in BOOLEAN, obj \in EvalObjects :
    IF ~ok \/ ~EvaluationScores(obj).ok
    THEN /\ Respond(500, <<>>, <<"evaluate">>)
         /\ UNCHANGED <<dbVars, reqVars, parseVars, authVars>>
    ELSE /\ BagCardinality(evals) < MaxEvals
         /\ EvaluationStored(a, EvaluationScores(obj).scores)
         /\ Respond(200, <<>>, <<"evaluate">>)
         /\ UNCHANGED <<companies, nextId, reqVars, parseVars, authVars>>

\* ------------------------------------------------------------- delete
\* Variant of the delete that leaves the children's parent_ad_id as it was
AdsAfterDeleteKeepLinks(a) == [b \in DOMAIN ads \ {a} |-> ads[b]]

\* session.delete(ad): the `regenerations` backref (no delete cascade) sets
\* the children's parent_ad_id to NULL
AdsAfterDelete(a) ==
    [b \in DOMAIN ads \ {a} |->
        IF ads[b].parent_ad_id = a THEN [ads[b] EXCEPT !.parent_ad_id = NULL]
        ELSE ads[b]]

\* Variant of the delete that leaves the evaluation rows
EvalsKeptOnDelete(a) == evals

\* ... and the `evaluations` relationship cascades the delete
EvalsAfterDelete(a) ==
    [e \in {x \in DOMAIN evals : x.ad_id # a} |-> evals[e]]

\* DELETE /ads/{ad_id}
DeleteAd(u, a) ==
    IF RouteGuard(u, a) # 200 THEN Reject(RouteGuard(u, a))
    ELSE /\ ads' = AdsAfterDelete(a)
         /\ evals' = EvalsAfterDelete(a)
         /\ Respond(204, <<>>, <<>>)
         /\ UNCHANGED <<companies, nextId, reqVars, parseVars, authVars>>

\* GET /ads/{ad_id}
GetAd(u, a) ==
    IF RouteGuard(u, a) # 200 THEN Reject(RouteGuard(u, a))
    ELSE /\ Respond(200, <<a>>, <<>>)
         /\ UNCHANGED <<dbVars, reqVars, parseVars, authVars>>

\* ------------------------------------------------------------- history
\* get_ad_history's walk to the root parent (NULL when a parent row is gone)
RECURSIVE RootOf(_)
RootOf(a) ==
    IF ads[a].parent_ad_id = NULL THEN a
    ELSE IF ads[a].parent_ad_id \notin DOMAIN ads THEN NULL
    ELSE RootOf(ads[a].parent_ad_id)

\* .order_by(Ad.created_at).all()
RECURSIVE OrderByCreatedAt(_)
OrderByCreatedAt(S) ==
    IF S = {} THEN <<>>
    ELSE LET first == CHOOSE x \in S :
                 \A y \in S : ads[x].created_at <= ads[y].created_at
         IN <<first>> \o OrderByCreatedAt(S \ {first})

\* The rows get_ad_history answers with
Versions(a) ==
    LET root == RootOf(a) IN
    IF root = NULL THEN <<a>>
    ELSE OrderByCreatedAt({b \in DOMAIN ads : b = root \/ ads[b].parent_ad_id = root})

\* GET /ads/{ad_id}/history
GetAdHistory(u, a) ==
    IF RouteGuard(u, a) # 200 THEN Reject(RouteGuard(u, a))
    ELSE /\ Respond(200, Versions(a), <<>>)
         /\ UNCHANGED <<dbVars, reqVars, parseVars, authVars>>

Next ==
    \/ \E r \in Req, u \in Authors, named \in BOOLEAN : GenerateAdStart(r, u, named)
    \/ \E r \in Req, co \in ContentOutcomes : GenerateAdContent(r, co)
    \/ \E r \in Req, o \in ImageOutcomes : GenerateAdImage(r, o)
    \/ \E u \in Users, a \in AdIds : RegenerateAd(u, a)
    \/ \E u \in Users, a \in AdIds : GenerateImage(u, a)
    \/ \E u \in Users, a \in AdIds : EvaluateAd(u, a)
    \/ \E u \in Users, a \in AdIds : DeleteAd(u, a)
    \/ \E u \in Users, a \in AdIds : GetAdHistory(u, a)
    \/ \E u \in Users, a \in AdIds : GetAd(u, a)

Spec == Init /\ [][Next]_vars

\* ------------------------------------------------------------- SpecJson
\* The characters of an answer text: braces, a well-formed member of an
\* object ("m"), a character of prose ("x") and whitespace (" ").  A brace
\* group inside an object stands for a member whose value is an object.
Chars == {"{", "}", "m", "x", " "}

RECURSIVE Texts(_)
Texts(n) ==
    IF n = 0 THEN {<<>>}
    ELSE Texts(n - 1) \cup {Append(t, ch) : t \in {x \in Texts(n - 1) : Len(x) = n - 1}, ch \in Chars}

\* str.strip()
RECURSIVE Strip(_)
Strip(t) ==
    IF t = <<>> THEN t
    ELSE IF Head(t) = " " THEN Strip(Tail(t))
    ELSE IF t[Len(t)] = " " THEN Strip(SubSeq(t, 1, Len(t) - 1))
    ELSE t

\* str.find / str.rfind, 1-based; 0 when the character is absent (the code's -1)
Find(t, ch) ==
    IF \E i \in 1 .. Len(t) : t[i] = ch
    THEN CHOOSE i \in 1 .. Len(t) : t[i] = ch /\ \A j \in 1 .. (i - 1) : t[j] # ch
    ELSE 0

RFind(t, ch) ==
    IF \E i \in 1 .. Len(t) : t[i] = ch
    THEN CHOOSE i \in 1 .. Len(t) : t[i] = ch /\ \A j \in (i + 1) .. Len(t) : t[j] # ch
    ELSE 0

\* Nesting depth after each prefix of a text
RECURSIVE Depth(_)
Depth(t) ==
    IF t = <<>> THEN 0
    ELSE LET d == Depth(SubSeq(t, 1, Len(t) - 1)) IN
         IF t[Len(t)] = "{" THEN d + 1
         ELSE IF t[Len(t)] = "}" THEN d - 1
         ELSE d

Compact(t) == LET NotSpace(ch) == ch # " " IN SelectSeq(t, NotSpace)

\* json.loads: the decoded object (its text without whitespace), or a
\* JSONDecodeError when the text is not one JSON object
JsonLoads(t) ==
    IF /\ t # <<>>
       /\ \A i \in 1 .. Len(t) : t[i] # "x"
       /\ Depth(t) = 0
       /\ \A i \in 1 .. (Len(Compact(t)) - 1) : Depth(SubSeq(Compact(t), 1, i)) >= 1
    THEN [ok |-> TRUE, json |-> Compact(t)]
    ELSE [ok |-> FALSE, json |-> <<>>]

ParseError == [ok |-> FALSE, json |-> <<>>]

\* answer[json_start:json_end + 1]
Slice(t, start, end) == SubSeq(t, start, end)

\* Variant of the extraction that stops at the first '}'
ExtractJsonFirstClose(text) ==
    LET t == Strip(text)
        json_start == Find(t, "{")
        json_end == Find(t, "}")
    IN  IF t = <<>> THEN ParseError
        ELSE IF json_start = 0 \/ json_end = 0 THEN ParseError
        ELSE JsonLoads(Slice(t, json_start, json_end))

\* The extraction both parsers share: strip, find the first '{' and the last
\* '}', slice, decode
ExtractJson(text) ==
    LET t == Strip(text)
        json_start == Find(t, "{")
        json_end == RFind(t, "}")
    IN  IF t = <<>> THEN ParseError
        ELSE IF json_start = 0 \/ json_end = 0 THEN ParseError
        ELSE JsonLoads(Slice(t, json_start, json_end))

\* response.get("answer", "{}")
AnswerOf(response) ==
    IF response.has_answer THEN response.answer ELSE <<"{", "}">>

\* _parse_generation_response, up to the decoded object
ParseGenerationJson(response) == ExtractJson(AnswerOf(response))

\* _parse_evaluation_response, up to the decoded object
ParseEvaluationJson(response) == ExtractJson(AnswerOf(response))

Replies ==
    {[has_answer |-> TRUE, answer |-> t] : t \in Texts(MaxAnswer)}
        \cup {[has_answer |-> FALSE, answer |-> <<>>]}

NotParsed == [parser |-> "none", ok |-> FALSE, json |-> <<>>]

InitJson ==
    /\ companies = [c \in Companies |-> NewCompany]
    /\ ads = <<>>
    /\ evals = EmptyBag
    /\ nextId = 1
    /\ pc = [r \in Req |-> "idle"]
    /\ loc = [r \in Req |-> NoLoc]
    /\ last = Response(0, <<>>, <<>>)
    /\ reply \in Replies
    /\ payload = NotParsed
    /\ users = SeedUsers
    /\ settings = DefaultSettings

ParseGeneration ==
    /\ payload' = [parser |-> "generation"] @@ ParseGenerationJson(reply)
    /\ UNCHANGED <<dbVars, reqVars, last, reply, authVars>>

ParseEvaluation ==
    /\ payload' = [parser |-> "evaluation"] @@ ParseEvaluationJson(reply)
    /\ UNCHANGED <<dbVars, reqVars, last, reply, authVars>>

NextJson == ParseGeneration \/ ParseEvaluation

SpecJson == InitJson /\ [][NextJson]_vars

\* ------------------------------------------------------------- SpecEval
\* Values the model may send for a score field
UpstreamValues == {Number(-3), Number(7), Number(15), NotANumber}

RECURSIVE Objects(_)
Objects(fields) ==
    IF fields = {} THEN {<<>>}
    ELSE LET f == CHOOSE x \in fields : TRUE
             rest == Objects(fields \ {f})
         IN  rest \cup {(f :> v) @@ o : v \in UpstreamValues, o \in rest}

NotScored == [ok |-> FALSE, scores |-> <<>>]

\* One generated ad of company c1 is on file; an evaluation reply arrives
InitEval ==
    /\ users = SeedUsers
    /\ settings = DefaultSettings
    /\ companies = [c \in Companies |->
           IF c = "c1"
           THEN [NewCompany EXCEPT !.ads_generated_this_month = 1, !.total_ads_generated = 1]
           ELSE NewCompany]
    /\ ads = (1 :> GeneratedAd(1, "u1", FALSE))
    /\ evals = EmptyBag
    /\ nextId = 2
    /\ pc = [r \in Req |-> "idle"]
    /\ loc = [r \in Req |-> NoLoc]
    /\ last = Response(0, <<>>, <<>>)
    /\ reply \in Objects(ScoreFields)
    /\ payload = NotScored

\* DifyService.evaluate_ad returning the parsed evaluation
EvaluationParsed ==
    /\ payload = NotScored
    /\ payload' = EvaluationScores(reply)
    /\ UNCHANGED <<dbVars, reqVars, last, reply, authVars>>

\* AdService.evaluate_ad storing it
EvaluationSaved ==
    /\ payload.ok
    /\ BagCardinality(evals) < MaxEvalRows
    /\ EvaluationStored(1, payload.scores)
    /\ Respond(200, <<>>, <<"evaluate">>)
    /\ UNCHANGED <<companies, nextId, reqVars, parseVars, authVars>>

\* The next POST /ads/evaluate on the Ad: another reply arrives
EvaluationRequested ==
    /\ payload.ok
    /\ evals # EmptyBag
    /\ reply' \in EvalObjects
    /\ payload' = NotScored
    /\ UNCHANGED <<dbVars, reqVars, last, authVars>>

NextEval == EvaluationParsed \/ EvaluationSaved \/ EvaluationRequested

SpecEval == InitEval /\ [][NextEval]_vars

\* ------------------------------------------------------------- properties of Spec
Month(c) == companies[c].ads_generated_this_month
Limit(c) == companies[c].monthly_ad_limit
Total(c) == companies[c].total_ads_generated

\* The rows a step inserts
Inserted == {b \in DOMAIN ads' : b \notin DOMAIN ads}

\* C1: a generate request of a company whose month counter has reached its
\* limit is answered with the quota error; no gateway call is made, no Ad
\* row is inserted and no counter moves.
C1_QuotaExceededRejects ==
    [][\A r \in Req, u \in Authors, named \in BOOLEAN :
          (Month(UserCompany(u)) >= Limit(UserCompany(u)) /\ GenerateAdStart(r, u, named))
              => /\ last' = Response(429, <<>>, <<>>)
                 /\ UNCHANGED <<companies, ads, evals, nextId, pc, loc>>]_vars

C1_Witness ==
    /\ last = Response(429, <<>>, <<>>)
    /\ Month("c1") >= Limit("c1")
    /\ \A r \in Req : pc[r] = "idle"

\* C2: every step that inserts an Ad row (generation or full-content
\* regeneration) does so for a company whose month counter is below its limit.
C2_InsertOnlyBelowLimit ==
    [][\A b \in Inserted :
          Month(ads'[b].company_id) < Limit(ads'[b].company_id)]_vars

\* C3: the month counter goes above the limit only by the commit of a
\* generate request whose quota check ran before another request's commit:
\* what it saw was below the limit and below the counter it now adds to.
C3_OvershootOnlyByRace ==
    [][\A c \in Companies :
          (Month(c)' > Limit(c)' /\ Month(c)' # Month(c))
              => \E r \in Req :
                    /\ pc[r] # "idle" /\ pc'[r] = "idle"
                    /\ UserCompany(loc[r].user) = c
                    /\ loc[r].seen_month < Limit(c)
                    /\ loc[r].seen_month < Month(c)]_vars

C3_Witness ==
    \E c \in Companies :
        /\ Month(c) > Limit(c)
        /\ Cardinality({a \in DOMAIN ads :
               ads[a].company_id = c /\ ads[a].ad_type = "PRODUCT_GEN"}) > Limit(c)

\* C4: across every step, either exactly one generated Ad row of the company
\* is new and both its counters are one higher, or no generated row is new
\* and neither counter changed.
C4_CountersMoveWithInsert ==
    [][\A c \in Companies :
          LET new == {b \in Inserted :
                         ads'[b].company_id = c /\ ads'[b].ad_type = "PRODUCT_GEN"}
          IN  IF new # {}
              THEN /\ Cardinality(new) = 1
                   /\ Month(c)' = Month(c) + 1
                   /\ Total(c)' = Total(c) + 1
              ELSE /\ Month(c)' = Month(c)
                   /\ Total(c)' = Total(c)]_vars

\* C5: a successful full-content regeneration of Ad a inserts exactly one
\* row, whose parent_ad_id is a, whose regeneration_count is a's plus one
\* and whose status is REGENERATED, and changes no existing row.
C5_FullRegenerationAddsChild ==
    [][\A u \in Users, a \in AdIds :
          (/\ a \in DOMAIN ads
           /\ RouteGuard(u, a) = 200
           /\ RegenerateFull(u, a)
           /\ last'.status = 200)
              => /\ nextId \notin DOMAIN ads
                 /\ DOMAIN ads' = DOMAIN ads \cup {nextId}
                 /\ ads'[nextId].parent_ad_id = a
                 /\ ads'[nextId].regeneration_count = ads[a].regeneration_count + 1
                 /\ ads'[nextId].status = "REGENERATED"
                 /\ \A x \in DOMAIN ads : ads'[x] = ads[x]]_vars

C5_Witness ==
    \E a, b, c \in DOMAIN ads :
        /\ ads[a].parent_ad_id = NULL /\ ads[a].regeneration_count = 0
        /\ ads[b].parent_ad_id = a /\ ads[b].regeneration_count = 1
        /\ ads[c].parent_ad_id = b /\ ads[c].regeneration_count = 2
        /\ ads[c].status = "REGENERATED"
        /\ last.status = 200 /\ last.calls # <<>> /\ last.calls[1] = "content"

\* The number of parent links from an Ad up to its root
RECURSIVE Links(_)
Links(a) ==
    IF ads[a].parent_ad_id = NULL \/ ads[a].parent_ad_id \notin DOMAIN ads THEN 0
    ELSE 1 + Links(ads[a].parent_ad_id)

\* C6 as stated: each Ad's regeneration_count equals the number of parent
\* links up to its root.
C6_CountEqualsLinks ==
    \A a \in DOMAIN ads : ads[a].regeneration_count = Links(a)

\* C6: each Ad's regeneration_count is at least the number of parent links
\* up to its root.
C6_CountAtLeastLinks ==
    \A a \in DOMAIN ads : ads[a].regeneration_count >= Links(a)

C6_Witness ==
    \E a \in DOMAIN ads : Links(a) >= 1 /\ ads[a].regeneration_count > Links(a)

\* The versions of an Ad: the rows that share its root
Lineage(a) == {b \in DOMAIN ads : RootOf(b) = RootOf(a)}

\* C7: the history of any Ad lists every Ad of its lineage, in creation order.
C7_HistoryListsLineage ==
    \A a \in DOMAIN ads :
        /\ \A b \in Lineage(a) : \E i \in 1 .. Len(Versions(a)) : Versions(a)[i] = b
        /\ \A i, j \in 1 .. Len(Versions(a)) :
               i < j => ads[Versions(a)[i]].created_at <= ads[Versions(a)[j]].created_at

\* C8: a successful image-only regeneration of Ad a inserts no row; of a's
\* fields only image_url changes and regeneration_count grows by one; every
\* other row, the company counters and the evaluations stay as they were.
C8_ImageOnlyFrame ==
    [][\A a \in AdIds :
          (/\ a \in DOMAIN ads
           /\ RegenerateImageOnly(a)
           /\ last'.status = 200)
              => /\ DOMAIN ads' = DOMAIN ads
                 /\ ads'[a].image_url # NULL
                 /\ ads'[a] = [ads[a] EXCEPT
                        !.image_url = ads'[a].image_url,
                        !.regeneration_count = @ + 1]
                 /\ \A x \in DOMAIN ads \ {a} : ads'[x] = ads[x]
                 /\ UNCHANGED <<companies, evals, nextId>>]_vars

C8_Witness ==
    \E a \in DOMAIN ads :
        /\ last = Response(200, <<>>, <<"image">>)
        /\ ads[a].regeneration_count = 1 /\ ads[a].parent_ad_id = NULL
        /\ ads[a].status = "GENERATED" /\ ads[a].image_url # NULL
        /\ Month(ads[a].company_id) = 1

\* ------------------------------------------------------------- properties of SpecEval
\* C9: each score of a parsed evaluation is 5 when the reply lacks the field
\* and the reply's value clamped into [0, 10] otherwise; every score of a
\* stored AdEvaluation and every Ad's evaluation_score lies in [0, 10].
C9_ScoresDefaultedAndClamped ==
    /\ payload.ok =>
          \A f \in ScoreFields :
              payload.scores[f] =
                  IF f \notin DOMAIN reply THEN 5
                  ELSE IF reply[f].v < 0 THEN 0
                  ELSE IF reply[f].v > 10 THEN 10
                  ELSE reply[f].v
    /\ \A row \in BagToSet(evals) : \A f \in ScoreFields : row.scores[f] \in 0 .. 10
    /\ \A a \in DOMAIN ads :
          ads[a].evaluation_score = NoScore \/ ads[a].evaluation_score \in 0 .. 10

C9_Witness ==
    /\ payload.ok
    /\ "clarity_score" \notin DOMAIN reply
    /\ "overall_score" \in DOMAIN reply /\ reply["overall_score"].v > 10
    /\ "relevance_score" \in DOMAIN reply /\ reply["relevance_score"].v < 0
    /\ evals # EmptyBag
    /\ ads[1].evaluation_score = 10

\* ------------------------------------------------------------- properties of SpecJson
\* C10: both parsers decode the substring from the first '{' to the last '}'
\* of the answer; when the answer has no such pair, or the substring is not
\* valid JSON, they fail and return no payload.
C10_ParsersDecodeBraceSpan ==
    LET text == IF reply.has_answer THEN reply.answer ELSE <<"{", "}">>
        opens == {i \in 1 .. Len(text) : text[i] = "{"}
        closes == {i \in 1 .. Len(text) : text[i] = "}"}
    IN  payload.parser # "none" =>
            IF opens = {} \/ closes = {}
            THEN ~payload.ok /\ payload.json = <<>>
            ELSE LET first == CHOOSE i \in opens : \A j \in opens : i <= j
                     final == CHOOSE i \in closes : \A j \in closes : j <= i
                     decoded == JsonLoads(SubSeq(text, first, final))
                 IN  /\ payload.ok = decoded.ok
                     /\ payload.json = decoded.json
                     /\ ~decoded.ok => payload.json = <<>>

C10_Witness ==
    /\ payload.parser = "evaluation"
    /\ payload.ok
    /\ reply.has_answer
    /\ reply.answer = <<"x", "{", "}", "x">>
    /\ payload.json = <<"{", "}">>

\* ------------------------------------------------------------- SpecGen
\* The keys of the content schema, and those the parser requires
SchemaKeys == {"headline", "description", "slogan", "cta_text", "image_prompt",
               "keywords", "hashtags", "platforms", "platform_details",
               "posting_times", "budget_allocation"}

RequiredFields == {"headline", "description", "slogan", "cta_text",
                   "keywords", "hashtags", "platforms"}

\* Answer texts of a content reply: empty, prose only, an empty object, and
\* an object with members, bare or wrapped in prose
GenTexts == {<<>>, <<"x">>, <<"{", "}">>, <<"{", "m", "}">>, <<"x", "{", "m", "}", "x">>}

HasMembers(t) == \E i \in 1 .. Len(t) : t[i] = "m"

\* The objects a text with members may decode to: any non-empty choice of
\* schema keys, each carrying the model's value
RECURSIVE KeySets(_)
KeySets(keys) ==
    IF keys = {} THEN {{}}
    ELSE LET k == CHOOSE x \in keys : TRUE
             rest == KeySets(keys \ {k})
         IN  rest \cup {ks \cup {k} : ks \in rest}

ModelObject(ks) == [k \in ks |-> "model"]

GenReplies ==
    {[has_answer |-> FALSE, answer |-> <<>>, object |-> <<>>]}
        \cup {[has_answer |-> TRUE, answer |-> t, object |-> <<>>] :
                 t \in {x \in GenTexts : ~HasMembers(x)}}
        \cup {[has_answer |-> TRUE, answer |-> t, object |-> ModelObject(ks)] :
                 t \in {x \in GenTexts : HasMembers(x)},
                 ks \in KeySets(SchemaKeys) \ {{}}}

\* Variant of the backfill that patches every key of the schema
BackfilledAllKeys(obj) ==
    [k \in SchemaKeys |-> IF k \in DOMAIN obj THEN obj[k] ELSE "default"]

\* missing_fields and the loop over them: a required field the object lacks
\* gets its fixed default, every key the object has keeps its value
Backfilled(obj) ==
    [k \in DOMAIN obj \cup RequiredFields |->
        IF k \in DOMAIN obj THEN obj[k] ELSE "default"]

GenerationFailed == [parsed |-> TRUE, ok |-> FALSE, content |-> <<>>]
NotGenerated == [parsed |-> FALSE, ok |-> FALSE, content |-> <<>>]

\* _parse_generation_response as a whole
ParseGenerationResponse(response) ==
    IF ~ParseGenerationJson(response).ok THEN GenerationFailed
    ELSE [parsed |-> TRUE, ok |-> TRUE, content |-> Backfilled(response.object)]

\* Ad(...) of generate_ad with the copy it takes from the payload
AdWithCopy(content) ==
    ("copy" :> content) @@ GeneratedAd(1, "u1", "image_prompt" \in DOMAIN content)

InitGen ==
    /\ companies = [c \in Companies |-> NewCompany]
    /\ ads = <<>>
    /\ evals = EmptyBag
    /\ nextId = 1
    /\ pc = [r \in Req |-> "idle"]
    /\ loc = [r \in Req |-> NoLoc]
    /\ last = Response(0, <<>>, <<>>)
    /\ reply \in GenReplies
    /\ payload = NotGenerated
    /\ users = SeedUsers
    /\ settings = DefaultSettings

\* DifyService.generate_ad returning what the parser made of the reply
GenerationParsed ==
    /\ ~payload.parsed
    /\ payload' = ParseGenerationResponse(reply)
    /\ UNCHANGED <<dbVars, reqVars, last, reply, authVars>>

\* generate_ad, steps 2 to 5 without an image: the Ad built from the payload
AdCreated ==
    /\ payload.ok
    /\ ads = <<>>
    /\ ads' = (1 :> AdWithCopy(payload.content))
    /\ nextId' = 2
    /\ companies' = [companies EXCEPT !["c1"].ads_generated_this_month = @ + 1,
                                      !["c1"].total_ads_generated = @ + 1]
    /\ Respond(201, <<>>, <<"content">>)
    /\ UNCHANGED <<evals, reqVars, parseVars, authVars>>

\* generate_ad when the gateway call raised: DifyAPIException, answered 500
GenerationRejected ==
    /\ payload.parsed /\ ~payload.ok
    /\ last.status = 0
    /\ Respond(500, <<>>, <<"content">>)
    /\ UNCHANGED <<dbVars, reqVars, parseVars, authVars>>

NextGen == GenerationParsed \/ AdCreated \/ GenerationRejected

SpecGen == InitGen /\ [][NextGen]_vars

\* ------------------------------------------------------------- properties of SpecGen
AllDefault(content) == \A k \in DOMAIN content : content[k] = "default"

NoContent(response) ==
    \/ ~response.has_answer
    \/ \A i \in 1 .. Len(response.answer) : response.answer[i] \notin {"m"}

\* C11: the parser never returns a payload made of fixed defaults only, a
\* reply with no answer text or no JSON content fails, and no Ad whose copy
\* is all defaults is stored.
C11_NoAllDefaultCopy ==
    /\ payload.ok => ~AllDefault(payload.content)
    /\ (payload.parsed /\ NoContent(reply)) => ~payload.ok
    /\ \A a \in DOMAIN ads : ~AllDefault(ads[a].copy)

\* C12 as stated: whenever the answer's JSON object parses, the payload has
\* every key of the schema, the missing ones with their defaults.
C12_EverySchemaKeyPresent ==
    (payload.parsed /\ ParseGenerationJson(reply).ok) =>
        /\ payload.ok
        /\ DOMAIN payload.content = SchemaKeys
        /\ \A k \in SchemaKeys :
              payload.content[k] =
                  IF k \in DOMAIN reply.object THEN reply.object[k] ELSE "default"

\* C12: whenever the answer's JSON object parses, the call succeeds and the
\* payload has every required key; a required key the object lacks carries
\* its default, a key the object has keeps the model's value, and an
\* optional key the object lacks is absent from the payload.
C12_RequiredKeysBackfilled ==
    (payload.parsed /\ ParseGenerationJson(reply).ok) =>
        /\ payload.ok
        /\ DOMAIN payload.content = DOMAIN reply.object \cup RequiredFields
        /\ \A k \in DOMAIN payload.content :
              payload.content[k] =
                  IF k \in DOMAIN reply.object THEN "model" ELSE "default"

C12_Witness ==
    /\ payload.ok
    /\ "headline" \notin DOMAIN reply.object /\ payload.content["headline"] = "default"
    /\ "slogan" \in DOMAIN reply.object /\ payload.content["slogan"] = "model"
    /\ "image_prompt" \notin DOMAIN payload.content
    /\ "budget_allocation" \in DOMAIN reply.object
    /\ 1 \in DOMAIN ads

\* ------------------------------------------------------------- SpecImage
\* What an image reply holds.  files: absent or empty ("none"), entries with
\* neither URL nor id ("plain"), with an id only ("ids"), with an http URL
\* ("url"), or entries that are not objects ("bad").  answer: a value that is
\* not text ("bad"), or the set of things found in the text.
FileKinds == {"none", "plain", "ids", "url", "bad"}
AnswerParts == {"markdown", "html", "bare_image_url", "bare_other_url", "base64"}

ImageReplies ==
    [files : FileKinds,
     answer : {<<"bad">>} \cup {<<"text", ps>> : ps \in SUBSET AnswerParts},
     metadata_url : BOOLEAN,
     direct_url : BOOLEAN,
     conversation_id : BOOLEAN]

AnswerHas(response, part) ==
    response.answer[1] = "text" /\ part \in response.answer[2]

\* Variant of the parser that looks at the metadata before the answer
ParseImageMetadataFirst(response) ==
    IF response.files = "bad" THEN "none"
    ELSE IF response.files = "url" THEN "files"
    ELSE IF response.metadata_url THEN "metadata"
    ELSE IF response.answer[1] = "bad" THEN "none"
    ELSE IF AnswerHas(response, "markdown") THEN "markdown"
    ELSE IF AnswerHas(response, "html") THEN "html"
    ELSE IF AnswerHas(response, "bare_image_url") THEN "bare_image_url"
    ELSE IF AnswerHas(response, "base64") THEN "base64"
    ELSE IF response.direct_url THEN "direct"
    ELSE IF response.conversation_id /\ response.files = "ids" THEN "constructed"
    ELSE "none"

\* _parse_image_response: where the URL it returns comes from, "none" for
\* None.  An exception (file.get on a non-object, re.findall on a non-text
\* answer) is caught and gives None.
ParseImageResponse(response) ==
    IF response.files = "bad" THEN "none"
    ELSE IF response.files = "url" THEN "files"
    ELSE IF response.answer[1] = "bad" THEN "none"
    ELSE IF AnswerHas(response, "markdown") THEN "markdown"
    ELSE IF AnswerHas(response, "html") THEN "html"
    ELSE IF AnswerHas(response, "bare_image_url") THEN "bare_image_url"
    ELSE IF AnswerHas(response, "base64") THEN "base64"
    ELSE IF response.metadata_url THEN "metadata"
    ELSE IF response.direct_url THEN "direct"
    ELSE IF response.conversation_id /\ response.files = "ids" THEN "constructed"
    ELSE "none"

NoImageYet == [parsed |-> FALSE, url |-> "none"]

InitImage ==
    /\ companies = [c \in Companies |-> NewCompany]
    /\ ads = <<>>
    /\ evals = EmptyBag
    /\ nextId = 1
    /\ pc = [r \in Req |-> "idle"]
    /\ loc = [r \in Req |-> NoLoc]
    /\ last = Response(0, <<>>, <<>>)
    /\ reply \in ImageReplies
    /\ payload = NoImageYet
    /\ users = SeedUsers
    /\ settings = DefaultSettings

\* DifyService.generate_image returning what the parser found
ImageParsed ==
    /\ ~payload.parsed
    /\ payload' = [parsed |-> TRUE, url |-> ParseImageResponse(reply)]
    /\ UNCHANGED <<dbVars, reqVars, last, reply, authVars>>

NextImage == ImageParsed

SpecImage == InitImage /\ [][NextImage]_vars

\* ------------------------------------------------------------- properties of SpecImage
\* The strategies in the order of their priority
Strategies == <<"files", "markdown", "html", "bare_image_url", "base64",
                "metadata", "direct", "constructed">>

StrategyMatches(response, i) ==
    CASE i = 1 -> response.files = "url"
      [] i \in 2 .. 5 -> AnswerHas(response, Strategies[i])
      [] i = 6 -> response.metadata_url
      [] i = 7 -> response.direct_url
      [] i = 8 -> response.conversation_id /\ response.files = "ids"

Malformed(response) == response.files = "bad" \/ response.answer[1] = "bad"

\* C13: the image parser always returns; a URL it returns is that of the first
\* strategy, in the fixed order, that matches the reply; a well-formed reply
\* that some strategy matches always gets that URL; None is returned only
\* when no strategy matches or the reply makes the parsing raise.
C13_FirstMatchingStrategy ==
    payload.parsed =>
        /\ \A i \in 1 .. Len(Strategies) :
              payload.url = Strategies[i] =>
                  /\ StrategyMatches(reply, i)
                  /\ \A j \in 1 .. (i - 1) : ~StrategyMatches(reply, j)
        /\ payload.url = "none" =>
              \/ Malformed(reply)
              \/ \A i \in 1 .. Len(Strategies) : ~StrategyMatches(reply, i)
        /\ payload.url \in {Strategies[i] : i \in 1 .. Len(Strategies)} \cup {"none"}

C13_Witness ==
    /\ payload.parsed
    /\ payload.url = "html"
    /\ reply.files = "ids"
    /\ AnswerHas(reply, "bare_other_url") /\ AnswerHas(reply, "base64")
    /\ reply.metadata_url /\ reply.direct_url /\ reply.conversation_id

\* ------------------------------------------------------------- further properties of Spec
\* C14: every AdEvaluation row belongs to an Ad that exists.
C14_NoOrphanEvaluation ==
    \A e \in BagToSet(evals) : e.ad_id \in DOMAIN ads

C14_Witness ==
    /\ last.status = 204
    /\ Cardinality(DOMAIN ads) + 1 < nextId
    /\ evals # EmptyBag
    /\ \E a \in DOMAIN ads : ads[a].status = "EVALUATED"

\* ------------------------------------------------------------- SpecRoutes
\* The routes that take an ad id, called by every user on a store that holds
\* one generated Ad of company c1
InitRoutes ==
    /\ users = SeedUsers
    /\ settings = DefaultSettings
    /\ companies = [c \in Companies |->
           IF c = "c1"
           THEN [NewCompany EXCEPT !.ads_generated_this_month = 1, !.total_ads_generated = 1]
           ELSE NewCompany]
    /\ ads = (1 :> GeneratedAd(1, "u1", TRUE))
    /\ evals = EmptyBag
    /\ nextId = 2
    /\ pc = [r \in Req |-> "idle"]
    /\ loc = [r \in Req |-> NoLoc]
    /\ last = Response(201, <<>>, <<"content", "image">>)
    /\ reply = <<>>
    /\ payload = <<>>

NextRoutes ==
    \/ \E u \in Users, a \in AdIds : RegenerateAd(u, a)
    \/ \E u \in Users, a \in AdIds : GenerateImage(u, a)
    \/ \E u \in Users, a \in AdIds : EvaluateAd(u, a)
    \/ \E u \in Users, a \in AdIds : DeleteAd(u, a)
    \/ \E u \in Users, a \in AdIds : GetAdHistory(u, a)
    \/ \E u \in Users, a \in AdIds : GetAd(u, a)

SpecRoutes == InitRoutes /\ [][NextRoutes]_vars

\* A request on Ad a by user u that one of the routes taking an ad id answers
OnAd(u, a) ==
    \/ GetAd(u, a)
    \/ GetAdHistory(u, a)
    \/ RegenerateAd(u, a)
    \/ GenerateImage(u, a)
    \/ EvaluateAd(u, a)
    \/ DeleteAd(u, a)

\* C15: a request on an Ad by a caller of another company, or of none (a
\* super-admin), is answered 403 by every route that takes an ad id; it
\* changes no stored state and calls no gateway.
C15_CrossTenantForbidden ==
    [][\A u \in Users, a \in AdIds :
          (/\ a \in DOMAIN ads
           /\ ads[a].company_id # UserCompany(u)
           /\ OnAd(u, a))
              => /\ last' = Response(403, <<>>, <<>>)
                 /\ UNCHANGED <<companies, ads, evals, nextId, pc, loc>>]_vars

C15_Witness ==
    /\ last = Response(403, <<>>, <<>>)
    /\ \E a \in DOMAIN ads :
          ads[a].company_id # UserCompany("root") /\ ads[a].company_id # UserCompany("u2")

\* C16: when the content call succeeded and the image step gave no image
\* (the gateway raised, no URL was found, the download failed, or the copy
\* has no image_prompt), the request is answered 201, its Ad is committed
\* with its copy and a NULL image_url, and the counters are written as the
\* commit of a generation with an image writes them.
C16_ImageFailureSwallowed ==
    [][\A r \in Req :
          (\/ \E o \in ImageOutcomes : o <= 0 /\ GenerateAdImage(r, o)
           \/ GenerateAdContent(r, "copy"))
              => LET id == IF pc[r] = "gen_image" THEN loc[r].ad ELSE nextId
                     c == UserCompany(loc[r].user)
                 IN  /\ last'.status = 201
                     /\ Inserted = {id}
                     /\ ads'[id].image_url = NULL
                     /\ ads'[id].headline = id
                     /\ ads'[id].status = "GENERATED"
                     /\ ads'[id].company_id = c
                     /\ Month(c)' = (IF loc[r].pinned THEN loc[r].seen_month ELSE Month(c)) + 1
                     /\ Total(c)' = (IF loc[r].pinned THEN loc[r].seen_total ELSE Total(c)) + 1]_vars

C16_Witness ==
    /\ last = Response(201, <<>>, <<"content", "image">>)
    /\ \E a \in DOMAIN ads :
          /\ ads[a].image_prompt /\ ads[a].image_url = NULL
          /\ ads[a].status = "GENERATED" /\ ads[a].regeneration_count = 0
          /\ Month(ads[a].company_id) = 1 /\ Total(ads[a].company_id) = 1

\* C19: a row is inserted as GENERATED (generation) or REGENERATED
\* (full-content regeneration); the status of an existing row changes only
\* into EVALUATED; an EVALUATED row stays EVALUATED as long as it exists; no
\* row is ever DRAFT or PUBLISHED.
C19_StatusMachine ==
    [][/\ \A a \in Inserted :
             ads'[a].status = IF ads'[a].parent_ad_id = NULL THEN "GENERATED" ELSE "REGENERATED"
       /\ \A a \in DOMAIN ads \cap DOMAIN ads' :
             /\ ads'[a].status # ads[a].status => ads'[a].status = "EVALUATED"
             /\ ads[a].status = "EVALUATED" => ads'[a].status = "EVALUATED"
       /\ \A a \in DOMAIN ads' : ads'[a].status \in {"GENERATED", "REGENERATED", "EVALUATED"}]_vars

C19_Witness ==
    \E a, b \in DOMAIN ads :
        /\ ads[a].status = "EVALUATED" /\ ads[a].regeneration_count = 1
        /\ ads[a].parent_ad_id = NULL /\ ads[a].image_url # NULL
        /\ ads[b].parent_ad_id = a /\ ads[b].status = "REGENERATED"
        /\ ads[b].regeneration_count = 1
        /\ last = Response(200, <<>>, <<"image">>)
\* C17: a request that called the gateway and failed is answered 503.
C17_GatewayFailureIs503 ==
    (last.calls # <<>> /\ last.status \notin {200, 201}) => last.status = 503

\* ------------------------------------------------------------- SpecWorkers
\* generate_ad when several server processes share the database: the route's
\* pre-check and the service's own check are two reads of the Company row,
\* and a commit of another process may fall between them.
GeneratePreCheck(r, u) ==
    /\ FreeSlot(r)
    /\ IF GetCurrentActiveUser(u) # 200
       THEN /\ Respond(GetCurrentActiveUser(u), <<>>, <<>>)
            /\ UNCHANGED reqVars
       ELSE IF ~CheckGenerationLimit(UserCompany(u))
       THEN /\ Respond(429, <<>>, <<>>)
            /\ UNCHANGED reqVars
       ELSE /\ pc' = [pc EXCEPT ![r] = "checked"]
            /\ loc' = [loc EXCEPT ![r] = [NoLoc EXCEPT !.user = u]]
            /\ UNCHANGED last
    /\ UNCHANGED <<dbVars, parseVars, authVars>>

\* The service's check: CompanyLimitException is raised inside the route's
\* try block, whose `except Exception` answers 500
GenerateServiceCheck(r, named) ==
    LET c == UserCompany(loc[r].user) IN
    /\ pc[r] = "checked"
    /\ IF ~CheckGenerationLimit(c)
       THEN /\ Finish(r, 500)
       ELSE /\ nextId + Reserved <= MaxAds
            /\ pc' = [pc EXCEPT ![r] = "gen_content"]
            /\ loc' = [loc EXCEPT ![r] =
                   [NoLoc EXCEPT !.user = loc[r].user, !.pinned = ~named,
                       !.seen_month = companies[c].ads_generated_this_month,
                       !.seen_total = companies[c].total_ads_generated,
                       !.calls = <<"content">>]]
            /\ UNCHANGED last
    /\ UNCHANGED <<dbVars, parseVars, authVars>>

NextWorkers ==
    \/ \E r \in Req, u \in Authors : GeneratePreCheck(r, u)
    \/ \E r \in Req, named \in BOOLEAN : GenerateServiceCheck(r, named)
    \/ \E r \in Req, co \in ContentOutcomes : GenerateAdContent(r, co)
    \/ \E r \in Req, o \in ImageOutcomes : GenerateAdImage(r, o)

SpecWorkers == Init /\ [][NextWorkers]_vars

\* C18: a generate request that finds the company's counter at its limit,
\* in the route's pre-check or in the service's check, is answered 429.
C18_QuotaRejectionIs429 ==
    [][\A r \in Req :
          (\/ \E u \in Authors :
                 /\ Month(UserCompany(u)) >= Limit(UserCompany(u))
                 /\ GeneratePreCheck(r, u)
           \/ \E named \in BOOLEAN :
                 /\ Month(UserCompany(loc[r].user)) >= Limit(UserCompany(loc[r].user))
                 /\ GenerateServiceCheck(r, named))
              => last'.status = 429]_vars

\* ------------------------------------------------------------- further properties of SpecEval
\* C20: a successful evaluation of the Ad adds exactly one AdEvaluation row
\* with the payload's scores and keeps the rows there were; the Ad's
\* evaluation_score becomes that row's overall_score and its status
\* EVALUATED, its other fields staying as they were.
C20_EvaluationAppends ==
    [][EvaluationSaved =>
          \E row \in BagToSet(evals') :
              /\ row.ad_id = 1
              /\ row.scores = payload.scores
              /\ evals' = evals (+) SetToBag({row})
              /\ BagCardinality(evals') = BagCardinality(evals) + 1
              /\ ads' = [ads EXCEPT ![1] =
                     [@ EXCEPT !.evaluation_score = row.scores["overall_score"],
                               !.status = "EVALUATED"]]]_vars

C20_Witness ==
    /\ BagCardinality(evals) = 2
    /\ Cardinality(BagToSet(evals)) = 2
    /\ payload.ok
    /\ ads[1].status = "EVALUATED"
    /\ ads[1].evaluation_score = payload.scores["overall_score"]
    /\ \E e \in BagToSet(evals) : e.scores["overall_score"] # ads[1].evaluation_score

\* ------------------------------------------------------------- gateway calls
\* The call sequences one operation may make
CallSequences == {<<>>, <<"content">>, <<"image">>, <<"evaluate">>,
                  <<"content", "image">>}

\* C21 as claimed: every operation but ad generation (the only one answered
\* 201) makes at most one call to the AI service.
C21_OneCallExceptGeneration ==
    last.status # 201 => Len(last.calls) <= 1

\* C21, amended: the calls an operation made are one of: none, the content
\* call, the image call, the evaluation call, or the content call followed by
\* the image call (generation and full-content regeneration); an operation
\* that failed stopped at its first call; a generation in flight has made the
\* content call first, and is at its image call only with the content call
\* answered and its Ad flushed.
C21_CallsSequential ==
    /\ last.calls \in CallSequences
    /\ last.status = 500 => Len(last.calls) <= 1
    /\ \A r \in Req :
          /\ pc[r] = "idle" => loc[r].calls = <<>>
          /\ pc[r] = "gen_content" => loc[r].calls = <<"content">> /\ loc[r].ad = 0
          /\ pc[r] = "gen_image" => loc[r].calls = <<"content", "image">> /\ loc[r].ad # 0

\* A full-content regeneration answered after both of its calls
C21_Witness ==
    /\ last = Response(200, <<>>, <<"content", "image">>)
    /\ \E a \in DOMAIN ads : ads[a].ad_type = "REGEN" /\ ads[a].image_url # NULL

\* ------------------------------------------------------------- gateway failures
\* C23: a step that answers with the error of a failed gateway call (500,
\* after at least one call) leaves the committed rows as they were: no Ad or
\* AdEvaluation row is added, no Ad field and no company counter changes.
C23_GatewayFailureKeepsState ==
    [][(last'.status = 500 /\ last'.calls # <<>>)
          => UNCHANGED <<companies, ads, evals>>]_vars

\* A failed evaluation call on an Ad on file: no row stored, the Ad not EVALUATED
C23_Witness ==
    /\ last = Response(500, <<>>, <<"evaluate">>)
    /\ ads # <<>>
    /\ evals = EmptyBag
    /\ \A a \in DOMAIN ads : ads[a].status # "EVALUATED" /\ ads[a].evaluation_score = NoScore

\* ------------------------------------------------------------- generate-image
\* C26: POST /ads/generate-image by a member of the Ad's company, for an Ad
\* that has an image_url, with force_regenerate = false answers 200 with the
\* row's image_url and image_prompt, calls no gateway and changes no stored
\* state; a request that does call the gateway was sent with
\* force_regenerate = true or for an Ad without an image.
C26_ExistingImageReturned ==
    [][\A u \in Users, a \in AdIds, force \in BOOLEAN :
          (/\ a \in DOMAIN ads
           /\ RouteGuard(u, a) = 200
           /\ GenerateImageRequest(u, a, force))
              => /\ (ads[a].image_url # NULL /\ ~force)
                        => /\ last' = Response(200, ImageGenerationResponse(a), <<>>)
                           /\ UNCHANGED <<companies, ads, evals, nextId, pc, loc>>
                 /\ last'.calls # <<>> => (force \/ ads[a].image_url = NULL)]_vars

\* The route answered with the image an Ad already has
C26_Witness ==
    \E a \in DOMAIN ads :
        /\ ads[a].image_url # NULL
        /\ last = Response(200, ImageGenerationResponse(a), <<>>)

\* ------------------------------------------------------------- admin: companies
\* Company ids an admin request names: the tenant whose members generate,
\* and "none", an id no row has
CompanyIds == {"c1", "none"}

\* PUT /admin/companies/{company_id}/limits
UpdateCompanyLimits(admin, c, n) ==
    /\ IF GetSuperAdmin(admin) # 200
       THEN /\ Respond(GetSuperAdmin(admin), <<>>, <<>>)
            /\ UNCHANGED companies
       ELSE IF c \notin Companies
       THEN /\ Respond(404, <<>>, <<>>)
            /\ UNCHANGED companies
       ELSE /\ companies' = [companies EXCEPT ![c].monthly_ad_limit = n]
            /\ Respond(200, <<>>, <<>>)
    /\ UNCHANGED <<ads, evals, nextId, reqVars, parseVars, authVars>>

\* POST /admin/companies/{company_id}/activate and .../deactivate
UpdateCompanyStatus(admin, c, active) ==
    /\ IF GetSuperAdmin(admin) # 200
       THEN /\ Respond(GetSuperAdmin(admin), <<>>, <<>>)
            /\ UNCHANGED companies
       ELSE IF c \notin Companies
       THEN /\ Respond(404, <<>>, <<>>)
            /\ UNCHANGED companies
       ELSE /\ companies' = [companies EXCEPT ![c].is_active = active]
            /\ Respond(200, <<>>, <<>>)
    /\ UNCHANGED <<ads, evals, nextId, reqVars, parseVars, authVars>>

\* ------------------------------------------------------------- SpecQuota
\* generate_ad requests of one tenant in flight while an admin changes the
\* tenant's limit and status
NextQuota ==
    \/ \E r \in Req, u \in Authors, named \in BOOLEAN : GenerateAdStart(r, u, named)
    \/ \E r \in Req, co \in ContentOutcomes : GenerateAdContent(r, co)
    \/ \E r \in Req, o \in ImageOutcomes : GenerateAdImage(r, o)
    \/ \E admin \in Users, c \in CompanyIds, n \in 0 .. MaxLimit :
           UpdateCompanyLimits(admin, c, n)
    \/ \E admin \in Users, c \in CompanyIds, active \in BOOLEAN :
           UpdateCompanyStatus(admin, c, active)

SpecQuota == Init /\ [][NextQuota]_vars

\* C22: no step lowers or resets a company's ads_generated_this_month; a
\* step that changes it adds exactly one and inserts a generated Ad of that
\* company.
C22_MonthlyCounterMonotonic ==
    [][\A c \in Companies :
          /\ companies'[c].ads_generated_this_month >= companies[c].ads_generated_this_month
          /\ companies'[c].ads_generated_this_month # companies[c].ads_generated_this_month
                => /\ companies'[c].ads_generated_this_month
                         = companies[c].ads_generated_this_month + 1
                   /\ \E a \in DOMAIN ads' \ DOMAIN ads :
                         /\ ads'[a].company_id = c
                         /\ ads'[a].ad_type = "PRODUCT_GEN"]_vars

\* The Ad rows generate_ad committed for company c (SpecQuota deletes none)
GeneratedFor(c) ==
    {a \in DOMAIN ads : ads[a].company_id = c /\ ads[a].ad_type = "PRODUCT_GEN"}

\* C27: a company's total_ads_generated equals the number of generate_ad
\* operations that committed an Ad row for it.
C27_TotalCountsCommits ==
    \A c \in Companies : Total(c) = Cardinality(GeneratedFor(c))

\* ------------------------------------------------------------- admin: users
\* u3 is a second member of tenant c1
AllUsers == Users \cup {"u3"}
Members == {"u1", "u3"}

\* Variant of the permanent delete without the cascade to the user's ads
AdsKeptOnUserDelete(u) == ads

\* session.delete(user): User.ads cascades the delete to the Ad rows the user
\* created; each of them goes as in delete_ad, so a surviving child of one of
\* them gets parent_ad_id NULL
AdsAfterUserDelete(u) ==
    [b \in {x \in DOMAIN ads : ads[x].created_by_id # u} |->
        IF /\ ads[b].parent_ad_id \in DOMAIN ads
           /\ ads[ads[b].parent_ad_id].created_by_id = u
        THEN [ads[b] EXCEPT !.parent_ad_id = NULL]
        ELSE ads[b]]

\* ... and Ad.evaluations cascades it to their evaluation rows
EvalsAfterUserDelete(u) ==
    [e \in {x \in DOMAIN evals : ads[x.ad_id].created_by_id # u} |-> evals[e]]

\* UserRepository.soft_delete / UserService.soft_delete_user
SoftDeleted(row) == [row EXCEPT !.is_deleted = TRUE, !.is_active = FALSE]

\* DELETE /admin/users/{user_id}, with no generate_ad of that user in flight
DeleteUser(admin, u, permanent) ==
    /\ IF GetSuperAdmin(admin) # 200
       THEN /\ Respond(GetSuperAdmin(admin), <<>>, <<>>)
            /\ UNCHANGED <<ads, evals, users>>
       ELSE IF u \notin DOMAIN users
       THEN /\ Respond(404, <<>>, <<>>)
            /\ UNCHANGED <<ads, evals, users>>
       ELSE IF u = admin
       THEN /\ Respond(400, <<>>, <<>>)
            /\ UNCHANGED <<ads, evals, users>>
       ELSE IF permanent
       THEN /\ users' = [x \in DOMAIN users \ {u} |-> users[x]]
            /\ ads' = AdsAfterUserDelete(u)
            /\ evals' = EvalsAfterUserDelete(u)
            /\ Respond(200, <<>>, <<>>)
       ELSE /\ users' = [users EXCEPT ![u] = SoftDeleted(@)]
            /\ Respond(200, <<>>, <<>>)
            /\ UNCHANGED <<ads, evals>>
    /\ UNCHANGED <<companies, nextId, reqVars, parseVars, settings>>

\* ------------------------------------------------------------- SpecLineage
\* Two members of one tenant regenerate and delete each other's ads while an
\* admin deletes users; the store starts with one generated Ad of u1.
InitLineage ==
    /\ users = SeedUsers @@ ("u3" :> UserRow("company", "c1"))
    /\ settings = DefaultSettings
    /\ companies = [c \in Companies |->
           IF c = "c1"
           THEN [NewCompany EXCEPT !.ads_generated_this_month = 1, !.total_ads_generated = 1]
           ELSE NewCompany]
    /\ ads = (1 :> GeneratedAd(1, "u1", TRUE))
    /\ evals = EmptyBag
    /\ nextId = 2
    /\ pc = [r \in Req |-> "idle"]
    /\ loc = [r \in Req |-> NoLoc]
    /\ last = Response(201, <<>>, <<"content", "image">>)
    /\ reply = <<>>
    /\ payload = <<>>

NextLineage ==
    \/ \E u \in Members, a \in AdIds : RegenerateAd(u, a)
    \/ \E u \in Members, a \in AdIds : DeleteAd(u, a)
    \/ \E admin \in {"root", "u3"}, u \in AllUsers, permanent \in BOOLEAN :
           DeleteUser(admin, u, permanent)

SpecLineage == InitLineage /\ [][NextLineage]_vars

\* C24: every Ad row has a company_id that is a row of companies and a
\* created_by_id that is a row of users (neither is NULL), also after users
\* who created ads were permanently deleted.
C24_AdOwnersExist ==
    \A a \in DOMAIN ads :
        /\ ads[a].company_id \in DOMAIN companies
        /\ ads[a].created_by_id \in DOMAIN users

\* u1, who created ads, is permanently deleted and an Ad of u3 is on file
C24_Witness ==
    /\ "u1" \notin DOMAIN users
    /\ \E a \in DOMAIN ads : ads[a].created_by_id = "u3"

\* C28: every Ad's parent_ad_id is NULL or the id of an Ad row on file.
C28_NoDanglingParent ==
    \A a \in DOMAIN ads :
        ads[a].parent_ad_id # NULL => ads[a].parent_ad_id \in DOMAIN ads

\* A regenerated version whose parent was removed, and one whose parent's
\* creator was permanently deleted
C28_Witness ==
    /\ \E a \in DOMAIN ads :
          /\ ads[a].ad_type = "REGEN"
          /\ ads[a].parent_ad_id = NULL
          /\ ads[a].created_by_id = "u3"
    /\ "u1" \notin DOMAIN users

\* ------------------------------------------------------------- SpecTenancy
\* The members' /ads requests while an admin deactivates and activates their
\* company
NextTenancy ==
    \/ \E r \in Req, u \in Authors, named \in BOOLEAN : GenerateAdStart(r, u, named)
    \/ \E r \in Req, co \in ContentOutcomes : GenerateAdContent(r, co)
    \/ \E r \in Req, o \in ImageOutcomes : GenerateAdImage(r, o)
    \/ \E u \in Authors, a \in AdIds : RegenerateAd(u, a)
    \/ \E u \in Authors, a \in AdIds : EvaluateAd(u, a)
    \/ \E u \in Authors, a \in AdIds : DeleteAd(u, a)
    \/ \E c \in CompanyIds, active \in BOOLEAN : UpdateCompanyStatus("root", c, active)

SpecTenancy == Init /\ [][NextTenancy]_vars

\* C29: while a company is deactivated, every request of one of its members
\* to generate an Ad, or to regenerate, evaluate or delete an Ad of the
\* company, is rejected: it is answered with an error, starts no generation
\* and changes no Ad or AdEvaluation row.
C29_DeactivatedCompanyFrozen ==
    [][\A u \in Authors :
          (UserCompany(u) \in Companies /\ ~companies[UserCompany(u)].is_active)
              => /\ \A r \in Req, named \in BOOLEAN :
                        GenerateAdStart(r, u, named)
                            => /\ last'.status >= 400
                               /\ UNCHANGED <<pc, ads, evals>>
                 /\ \A a \in DOMAIN ads :
                        (/\ ads[a].company_id = UserCompany(u)
                         /\ (RegenerateAd(u, a) \/ EvaluateAd(u, a) \/ DeleteAd(u, a)))
                            => /\ last'.status >= 400
                               /\ UNCHANGED <<ads, evals>>]_vars

\* ------------------------------------------------------------- accounts
\* A request that leaves every table as it was
Answer(status, body) ==
    /\ Respond(status, body, <<>>)
    /\ UNCHANGED <<dbVars, reqVars, parseVars, authVars>>

\* A request that writes the users table only
UsersWritten(status, body) ==
    /\ Respond(status, body, <<>>)
    /\ UNCHANGED <<dbVars, reqVars, parseVars, settings>>

\* POST /auth/register with AuthService.create_user, for a company that is on
\* file or for none: the role follows from the company, the verification
\* link is issued when the settings require one. The answer carries tokens
\* and the user.
Register(u, company) ==
    IF u \in DOMAIN users THEN Answer(400, <<>>)
    ELSE /\ users' = users @@ (u :>
                [UserRow(IF company \in Companies THEN "company" ELSE "super_admin", company)
                    EXCEPT !.is_email_verified = ~settings.EMAIL_VERIFICATION_REQUIRED,
                           !.email_verification_token =
                               IF settings.EMAIL_VERIFICATION_REQUIRED THEN 1 ELSE 0])
         /\ UsersWritten(200, <<u>>)

\* POST /admin/users: the role is the request's, the company the named one
CreateUserByAdmin(admin, u, role, company) ==
    IF GetSuperAdmin(admin) # 200 THEN Answer(GetSuperAdmin(admin), <<>>)
    ELSE IF u \in DOMAIN users THEN Answer(400, <<>>)
    ELSE /\ users' = users @@ (u :> UserRow(role, company))
         /\ UsersWritten(200, <<u>>)

\* authenticate_user: the row, the password, then is_active and is_deleted
AuthenticateUser(u, password_ok) ==
    /\ u \in DOMAIN users
    /\ password_ok
    /\ users[u].is_active
    /\ ~users[u].is_deleted

\* POST /auth/login
Login(u, password_ok) ==
    IF ~AuthenticateUser(u, password_ok) THEN Answer(401, <<>>)
    ELSE IF settings.EMAIL_VERIFICATION_REQUIRED /\ ~users[u].is_email_verified
    THEN Answer(403, <<>>)
    ELSE /\ users' = [users EXCEPT ![u].last_login = 1]
         /\ UsersWritten(200, <<u>>)

\* AuthService.validate_refresh_token
ValidateRefreshToken(u) ==
    /\ u \in DOMAIN users
    /\ users[u].is_active
    /\ ~users[u].is_deleted

\* POST /auth/refresh
RefreshToken(u) ==
    IF ~ValidateRefreshToken(u) THEN Answer(401, <<>>)
    ELSE Answer(200, <<u>>)

\* GET /auth/me
GetCurrentUserInfo(u) ==
    IF GetCurrentActiveUser(u) # 200 THEN Answer(GetCurrentActiveUser(u), <<>>)
    ELSE Answer(200, <<u>>)

\* POST /auth/resend-verification: behind get_current_user; a new
\* verification token is committed
ResendVerification(u) ==
    IF GetCurrentUser(u) # 200 THEN Answer(GetCurrentUser(u), <<>>)
    ELSE IF users[u].is_email_verified THEN Answer(400, <<>>)
    ELSE /\ users[u].email_verification_token < MaxLinks
         /\ users' = [users EXCEPT ![u].email_verification_token = @ + 1]
         /\ UsersWritten(200, <<>>)

\* POST /auth/verify-email with the token mailed to u
VerifyEmail(u) ==
    IF u \notin DOMAIN users \/ users[u].email_verification_token = 0
    THEN Answer(400, <<>>)
    ELSE /\ users' = [users EXCEPT ![u].is_email_verified = TRUE,
                                   ![u].email_verification_token = 0]
         /\ UsersWritten(200, <<>>)

\* POST /auth/logout: behind get_current_user, answers a message
Logout(u) ==
    IF GetCurrentUser(u) # 200 THEN Answer(GetCurrentUser(u), <<>>)
    ELSE Answer(200, <<>>)

\* DELETE /users/profile
DeleteAccount(u) ==
    IF GetCurrentActiveUser(u) # 200 THEN Answer(GetCurrentActiveUser(u), <<>>)
    ELSE /\ users' = [users EXCEPT ![u] = SoftDeleted(@)]
         /\ UsersWritten(200, <<>>)

\* POST /admin/users/{user_id}/deactivate
DeactivateUser(admin, u) ==
    IF GetSuperAdmin(admin) # 200 THEN Answer(GetSuperAdmin(admin), <<>>)
    ELSE IF u \notin DOMAIN users THEN Answer(404, <<>>)
    ELSE IF u = admin THEN Answer(400, <<>>)
    ELSE /\ users' = [users EXCEPT ![u].is_active = FALSE]
         /\ UsersWritten(200, <<>>)

\* POST /admin/users/{user_id}/activate
ActivateUser(admin, u) ==
    IF GetSuperAdmin(admin) # 200 THEN Answer(GetSuperAdmin(admin), <<>>)
    ELSE IF u \notin DOMAIN users THEN Answer(404, <<>>)
    ELSE /\ users' = [users EXCEPT ![u].is_active = TRUE, ![u].is_deleted = FALSE]
         /\ UsersWritten(200, <<>>)

\* ------------------------------------------------------------- SpecAuth
\* The accounts of u1 (on file) and u3 (to be created) under the auth, users
\* and admin routes; the server runs with email verification on or off.
Accounts == {"u1", "u3"}
Admins == {"root", "u1"}
Roles == {"company", "super_admin"}

InitAuth ==
    /\ users = SeedUsers
    /\ settings \in {[EMAIL_VERIFICATION_REQUIRED |-> b] : b \in BOOLEAN}
    /\ companies = [c \in Companies |-> NewCompany]
    /\ ads = <<>>
    /\ evals = EmptyBag
    /\ nextId = 1
    /\ pc = [r \in Req |-> "idle"]
    /\ loc = [r \in Req |-> NoLoc]
    /\ last = Response(0, <<>>, <<>>)
    /\ reply = <<>>
    /\ payload = <<>>

NextAuth ==
    \/ \E u \in Accounts, company \in CompanyIds : Register(u, company)
    \/ \E admin \in Admins, u \in Accounts, role \in Roles, company \in CompanyIds :
           CreateUserByAdmin(admin, u, role, company)
    \/ \E u \in Accounts, password_ok \in BOOLEAN : Login(u, password_ok)
    \/ \E u \in Accounts : RefreshToken(u)
    \/ \E u \in Accounts : GetCurrentUserInfo(u)
    \/ \E u \in Accounts : ResendVerification(u)
    \/ \E u \in Accounts : VerifyEmail(u)
    \/ \E u \in Accounts : Logout(u)
    \/ \E u \in Accounts : DeleteAccount(u)
    \/ \E admin \in Admins, u \in Accounts : DeactivateUser(admin, u)
    \/ \E admin \in Admins, u \in Accounts : ActivateUser(admin, u)
    \/ \E admin \in Admins, u \in Accounts, permanent \in BOOLEAN :
           DeleteUser(admin, u, permanent)

SpecAuth == InitAuth /\ [][NextAuth]_vars

\* C25: every user whose role is company has a company_id that is a row of
\* companies; only super-admins have none.
C25_MembersHaveCompany ==
    \A u \in DOMAIN users :
        users[u].role = "company" => users[u].company_id \in Companies

\* A request made with u's password, access token or refresh token
ByCredentials(u) ==
    \/ \E password_ok \in BOOLEAN : Login(u, password_ok)
    \/ RefreshToken(u)
    \/ GetCurrentUserInfo(u)
    \/ ResendVerification(u)
    \/ Logout(u)
    \/ DeleteAccount(u)

\* C30: a request made with the credentials or tokens of a user who is
\* deactivated or soft-deleted returns no data and changes no row; a soft
\* delete or deactivation keeps the user's row; an admin's activation sets
\* is_active and clears is_deleted.
C30_DeactivatedUserLockedOut ==
    [][\A u \in Accounts :
          /\ (/\ u \in DOMAIN users
              /\ ~users[u].is_active \/ users[u].is_deleted
              /\ ByCredentials(u))
                 => /\ last'.body = <<>>
                    /\ UNCHANGED <<users, companies, ads, evals>>
          /\ (/\ u \in DOMAIN users
              /\ \/ DeleteAccount(u)
                 \/ \E admin \in Admins : DeactivateUser(admin, u) \/ DeleteUser(admin, u, FALSE))
                 => u \in DOMAIN users'
          /\ (/\ u \in DOMAIN users
              /\ ActivateUser("root", u))
                 => users'[u].is_active /\ ~users'[u].is_deleted]_vars

====
